---- MODULE Spec2Model ----
(***************************************************************************)
(* A model of the MVCC transaction engine of src/main.go: the version      *)
(* store, the transaction table, the visibility rule (isvisible), the      *)
(* commit-time conflict detection (hasConflict, setsShareItem) and the     *)
(* command dispatcher of a connection (execCommand).                       *)
(*                                                                         *)
(* A method of *Database is an operator whose first parameter d is the     *)
(* database record.  Key names are modelled by the integers 1..MaxKey,     *)
(* ordered as btree.Set[string] orders the strings they stand for;         *)
(* payloads by 1..MaxVal and the empty string "" by 0.                     *)
(***************************************************************************)
EXTENDS Integers, Sequences, FiniteSets, TLC

\* ---- bounds of the model ------------------------------------------------
MaxConn == 2        \* connections
MaxVal == 2         \* payloads
MaxVersions == 2    \* versions stored per key
MaxKey == 2         \* key names
MaxTx == 3          \* transactions begun under Spec
MaxTxDeep == 4      \* transactions begun under SpecDeep
MaxTxWide == 2      \* transactions begun under SpecWide
MaxTxShadow == 4    \* transactions begun under SpecShadow
MaxTxRace == 3      \* ids allocated under SpecRace
MaxTxSer == 2       \* transactions begun under SpecSer
GhostId == 2        \* the transaction SpecShadow runs without its writes

Conns == 1..MaxConn
Vals == 1..MaxVal
Keys == 1..MaxKey
OneKey == {1}
OneVal == {1}
OneConn == {1}

\* ---- TransactionState (main.go:42-46) and Isolation (main.go:51-57) -----
InProgressTransaction == 0
AbortedTransaction == 1
CommittedTransaction == 2

ReadUncommittedIsolation == 0
ReadCommittedIsolation == 1
RepeatableReadIsolation == 2
SnapshotIsolation == 3
SerializableIsolation == 4

Isolations == ReadUncommittedIsolation..SerializableIsolation

\* ---- error values returned by execCommand -------------------------------
NoErr == "nil"
ErrWriteWrite == "write-write conflict"
ErrReadWrite == "read-write conflict"
ErrDelete == "cannot delete key that does not exist"
ErrGet == "cannot get key that does not exist"
ErrCommand == "no such command"

VARIABLES
    db,     \* the Database: defaultIsolation, store, transactions, nextTransactionId
    tx,     \* Connection.tx of every connection (NilTx: no transaction)
    shadow, \* SpecShadow only: the same commands run without the writes of
            \* one transaction (shadow.ghost), on shadow.db and shadow.tx
    begun   \* SpecRace only: for every connection, the id its newTransaction
            \* in flight has read (t.id, main.go:201), 0: no begin in flight

vars == <<db, tx, shadow, begun>>

\* ---- data types ---------------------------------------------------------
\* type Value (main.go:34-38)
Value(s, e, v) == [txStartId |-> s, txEndId |-> e, value |-> v]

\* the nil *Transaction: the record of id 0 (valid ids start at 1, main.go:83-86)
NilTx == [isolation |-> 0, id |-> 0, state |-> 0,
          inprogress |-> {}, writeset |-> {}, readset |-> {}]

\* newDatabase (main.go:79-88); a key the map does not hold reads as the
\* empty slice
newDatabase ==
    [defaultIsolation |-> ReadCommittedIsolation,
     store |-> [k \in Keys |-> << >>],
     transactions |-> << >>,
     nextTransactionId |-> 1]

\* ---- the transaction table ----------------------------------------------
\* btree.Map.Set(id, t)
MapSet(m, id, t) == [i \in (DOMAIN m) \cup {id} |-> IF i = id THEN t ELSE m[i]]

\* Database.transactionState (main.go:178-182): the id must be in the table
transactionState(d, txId) == d.transactions[txId]

\* Database.inprogress (main.go:184-193)
inprogress(d) == {id \in DOMAIN d.transactions :
                     d.transactions[id].state = InProgressTransaction}

\* ---- conflict detection -------------------------------------------------
\* btree SetIter.Seek(key) as setsShareItem calls it (main.go:134): it moves
\* to the first item greater than or equal to key and reports whether there
\* is one
Seek(s, key) == \E item \in s : item >= key

\* setsShareItem (main.go:129-141)
setsShareItem(s1, s2) == \E s1Key \in s1 : Seek(s2, s1Key)

\* a variant of conflictCandidates that runs the first loop only: the
\* transactions that began after t1 are not examined
conflictCandidatesSnapshotOnly(d, t1) ==
    {id \in t1.inprogress :
        /\ id \in DOMAIN d.transactions
        /\ d.transactions[id].state = CommittedTransaction}

\* the transactions the two loops of Database.hasConflict visit and find
\* committed (main.go:95-124): those in progress when t1 began, then those
\* from t1's id up; every id the loops seek is a key of the table, so each
\* Seek lands on that id
conflictCandidates(d, t1) ==
    {id \in t1.inprogress :
        /\ id \in DOMAIN d.transactions
        /\ d.transactions[id].state = CommittedTransaction}
    \cup
    {id \in t1.id..(d.nextTransactionId - 1) :
        /\ id \in DOMAIN d.transactions
        /\ d.transactions[id].state = CommittedTransaction}

\* the conflict function of Snapshot Isolation (main.go:151-153)
WriteWrite(t1, t2) == setsShareItem(t1.writeset, t2.writeset)

\* a variant of ReadWrite that compares one direction only
ReadWriteOneWay(t1, t2) == setsShareItem(t1.writeset, t2.readset)

\* the conflict function of Serializable Isolation (main.go:162-165)
ReadWrite(t1, t2) ==
    \/ setsShareItem(t1.readset, t2.writeset)
    \/ setsShareItem(t1.writeset, t2.readset)

\* the function literal completeTransaction passes to hasConflict, named by
\* the level it is passed for
conflictFn(isolation, t1, t2) ==
    IF isolation = SnapshotIsolation THEN WriteWrite(t1, t2) ELSE ReadWrite(t1, t2)

\* Database.hasConflict (main.go:90-127), its conflictFn given by the level
hasConflict(d, t1, isolation) ==
    \E id \in conflictCandidates(d, t1) :
        conflictFn(isolation, t1, d.transactions[id])

\* a variant of commitError that runs the write-write check from Repeatable
\* Read up
commitErrorFromRepeatableRead(d, t) ==
    IF /\ t.isolation \in {RepeatableReadIsolation, SnapshotIsolation}
       /\ hasConflict(d, t, SnapshotIsolation)
    THEN ErrWriteWrite
    ELSE IF t.isolation = SerializableIsolation /\ hasConflict(d, t, SerializableIsolation)
    THEN ErrReadWrite
    ELSE NoErr

\* the error of Database.completeTransaction(t, CommittedTransaction)
\* (main.go:146-169)
commitError(d, t) ==
    IF t.isolation = SnapshotIsolation /\ hasConflict(d, t, SnapshotIsolation)
    THEN ErrWriteWrite
    ELSE IF t.isolation = SerializableIsolation /\ hasConflict(d, t, SerializableIsolation)
    THEN ErrReadWrite
    ELSE NoErr

\* a variant of completeTransaction that returns the conflict without
\* completing the transaction as aborted
completeTransactionNoAbort(d, t, state) ==
    LET err == IF state = CommittedTransaction THEN commitError(d, t) ELSE NoErr
    IN [db |-> IF err = NoErr
               THEN [d EXCEPT !.transactions =
                        MapSet(@, t.id, [t EXCEPT !.state = state])]
               ELSE d,
        err |-> err]

\* Database.completeTransaction (main.go:143-176): a commit that finds a
\* conflict completes the transaction as aborted and returns the error
completeTransaction(d, t, state) ==
    LET err == IF state = CommittedTransaction THEN commitError(d, t) ELSE NoErr
        final == IF err = NoErr THEN state ELSE AbortedTransaction
    IN [db |-> [d EXCEPT !.transactions =
                    MapSet(@, t.id, [t EXCEPT !.state = final])],
        err |-> err]

\* a variant of newTransaction that does not increment nextTransactionId
newTransactionSameId(d) ==
    LET t == [isolation |-> d.defaultIsolation, id |-> d.nextTransactionId,
              state |-> InProgressTransaction, inprogress |-> inprogress(d),
              writeset |-> {}, readset |-> {}]
    IN [db |-> [d EXCEPT !.transactions = MapSet(@, t.id, t)],
        t |-> t]

\* a variant of newTransaction that takes the snapshot after it has added
\* the transaction to the table
newTransactionSelfSnapshot(d) ==
    LET t0 == [isolation |-> d.defaultIsolation, id |-> d.nextTransactionId,
               state |-> InProgressTransaction, inprogress |-> {},
               writeset |-> {}, readset |-> {}]
        d1 == [d EXCEPT !.nextTransactionId = @ + 1,
                        !.transactions = MapSet(@, t0.id, t0)]
        t == [t0 EXCEPT !.inprogress = inprogress(d1)]
    IN [db |-> [d1 EXCEPT !.transactions = MapSet(@, t.id, t)],
        t |-> t]

\* Database.newTransaction (main.go:195-213)
newTransaction(d) ==
    LET t == [isolation |-> d.defaultIsolation, id |-> d.nextTransactionId,
              state |-> InProgressTransaction, inprogress |-> inprogress(d),
              writeset |-> {}, readset |-> {}]
    IN [db |-> [d EXCEPT !.nextTransactionId = @ + 1,
                         !.transactions = MapSet(@, t.id, t)],
        t |-> t]

\* Database.assertValidTransaction (main.go:215-218); false: the assert
\* (or the nil dereference) panics
assertValidTransaction(d, t) ==
    /\ t.id > 0
    /\ transactionState(d, t.id).state = InProgressTransaction

\* ---- visibility ---------------------------------------------------------
\* a variant of isvisibleReadCommitted that does not ask whether the
\* creator of the version committed
isvisibleReadCommittedDirty(d, t, value) ==
    /\ ~ (value.txEndId = t.id)
    /\ ~ (/\ value.txEndId > 0
          /\ transactionState(d, value.txEndId).state = CommittedTransaction)

\* a variant of isvisibleReadCommitted that does not ask whether the
\* transaction that ended the version committed
isvisibleReadCommittedNoEnd(d, t, value) ==
    /\ ~ (/\ value.txStartId # t.id
          /\ transactionState(d, value.txStartId).state # CommittedTransaction)
    /\ ~ (value.txEndId = t.id)

\* Database.isvisible at Read Committed (main.go:232-255)
isvisibleReadCommitted(d, t, value) ==
    /\ ~ (/\ value.txStartId # t.id
          /\ transactionState(d, value.txStartId).state # CommittedTransaction)
    /\ ~ (value.txEndId = t.id)
    /\ ~ (/\ value.txEndId > 0
          /\ transactionState(d, value.txEndId).state = CommittedTransaction)

\* a variant of isvisibleRepeatableRead that does not ask whether the
\* creator of the version was in progress when t began
isvisibleRepeatableReadNoSnapshot(d, t, value) ==
    /\ ~ (value.txStartId > t.id)
    /\ ~ (/\ transactionState(d, value.txStartId).state # CommittedTransaction
          /\ value.txStartId # t.id)
    /\ ~ (value.txEndId = t.id)
    /\ ~ (/\ value.txEndId < t.id
          /\ value.txEndId > 0
          /\ transactionState(d, value.txEndId).state = CommittedTransaction
          /\ ~ (value.txEndId \in t.inprogress))

\* a variant of isvisibleRepeatableRead that does not ask whether the
\* creator of the version committed
isvisibleRepeatableReadDirty(d, t, value) ==
    /\ ~ (value.txStartId > t.id)
    /\ ~ (value.txStartId \in t.inprogress)
    /\ ~ (value.txEndId = t.id)
    /\ ~ (/\ value.txEndId < t.id
          /\ value.txEndId > 0
          /\ transactionState(d, value.txEndId).state = CommittedTransaction
          /\ ~ (value.txEndId \in t.inprogress))

\* a variant of isvisibleRepeatableRead that does not ask whether the
\* creator of the version began after t
isvisibleRepeatableReadNoLater(d, t, value) ==
    /\ ~ (value.txStartId \in t.inprogress)
    /\ ~ (/\ transactionState(d, value.txStartId).state # CommittedTransaction
          /\ value.txStartId # t.id)
    /\ ~ (value.txEndId = t.id)
    /\ ~ (/\ value.txEndId < t.id
          /\ value.txEndId > 0
          /\ transactionState(d, value.txEndId).state = CommittedTransaction
          /\ ~ (value.txEndId \in t.inprogress))

\* Database.isvisible at Repeatable Read, Snapshot Isolation and
\* Serializable (main.go:257-299)
isvisibleRepeatableRead(d, t, value) ==
    /\ ~ (value.txStartId > t.id)
    /\ ~ (value.txStartId \in t.inprogress)
    /\ ~ (/\ transactionState(d, value.txStartId).state # CommittedTransaction
          /\ value.txStartId # t.id)
    /\ ~ (value.txEndId = t.id)
    /\ ~ (/\ value.txEndId < t.id
          /\ value.txEndId > 0
          /\ transactionState(d, value.txEndId).state = CommittedTransaction
          /\ ~ (value.txEndId \in t.inprogress))

\* a variant of isvisible in which Read Uncommitted follows the rule of Read
\* Committed
isvisibleNoReadUncommitted(d, t, value) ==
    IF t.isolation <= ReadCommittedIsolation
    THEN isvisibleReadCommitted(d, t, value)
    ELSE isvisibleRepeatableRead(d, t, value)

\* Database.isvisible (main.go:220-300)
isvisible(d, t, value) ==
    IF t.isolation = ReadUncommittedIsolation
    THEN value.txEndId = 0
    ELSE IF t.isolation = ReadCommittedIsolation
    THEN isvisibleReadCommitted(d, t, value)
    ELSE isvisibleRepeatableRead(d, t, value)

\* indexes of the versions of key that t sees
visibleIdx(d, t, key) ==
    {i \in 1..Len(d.store[key]) : isvisible(d, t, d.store[key][i])}

\* a variant of getIdx that scans from the oldest version
getIdxOldest(d, t, key) ==
    IF visibleIdx(d, t, key) = {} THEN 0
    ELSE CHOOSE i \in visibleIdx(d, t, key) :
            \A j \in visibleIdx(d, t, key) : i <= j

\* the loop of "get" (main.go:375-381): the newest visible version, 0: none
getIdx(d, t, key) ==
    IF visibleIdx(d, t, key) = {} THEN 0
    ELSE CHOOSE i \in visibleIdx(d, t, key) :
            \A j \in visibleIdx(d, t, key) : j <= i

\* a variant of endVisible that ends no version
endVisibleNone(d, t, key) == d.store[key]

\* the loop of "set" and "delete" (main.go:338-345): t ends every version
\* it sees
endVisible(d, t, key) ==
    [i \in 1..Len(d.store[key]) |->
        IF isvisible(d, t, d.store[key][i])
        THEN [d.store[key][i] EXCEPT !.txEndId = t.id]
        ELSE d.store[key][i]]

\* ---- Connection.execCommand (main.go:307-387) ---------------------------
Return(d, t, res, err) == [db |-> d, tx |-> t, res |-> res, err |-> err, panic |-> FALSE]

\* a failed assert (or nil dereference) panics and changes nothing
Panic(d, t) == [db |-> d, tx |-> t, res |-> 0, err |-> NoErr, panic |-> TRUE]

\* "begin" (main.go:310-315); the id is returned as its decimal string
execBegin(d, t) ==
    IF t # NilTx THEN Panic(d, t)
    ELSE LET n == newTransaction(d) IN Return(n.db, n.t, n.t.id, NoErr)

\* "abort" and "commit" (main.go:317-329)
execComplete(d, t, state) ==
    IF ~ assertValidTransaction(d, t) THEN Panic(d, t)
    ELSE LET r == completeTransaction(d, t, state)
         IN Return(r.db, NilTx, 0, r.err)

\* a variant of execWrite that inserts the key into the write set before it
\* looks whether the delete found a version
execWriteEager(d, t, command, args) ==
    IF ~ assertValidTransaction(d, t) THEN Panic(d, t)
    ELSE LET key == args[1]
             found == visibleIdx(d, t, key) # {}
             ended == endVisible(d, t, key)
             t2 == [t EXCEPT !.writeset = @ \cup {key}]
         IN IF command = "delete" /\ ~ found
            THEN Return(d, t2, 0, ErrDelete)
            ELSE IF command = "set"
            THEN Return([d EXCEPT !.store[key] =
                            Append(ended, Value(t.id, 0, args[2]))],
                        t2, args[2], NoErr)
            ELSE Return([d EXCEPT !.store[key] = ended], t2, 0, NoErr)

\* "set" and "delete" (main.go:331-366)
execWrite(d, t, command, args) ==
    IF ~ assertValidTransaction(d, t) THEN Panic(d, t)
    ELSE LET key == args[1]
             found == visibleIdx(d, t, key) # {}
             ended == endVisible(d, t, key)
             t2 == [t EXCEPT !.writeset = @ \cup {key}]
         IN IF command = "delete" /\ ~ found
            THEN Return(d, t, 0, ErrDelete)
            ELSE IF command = "set"
            THEN Return([d EXCEPT !.store[key] =
                            Append(ended, Value(t.id, 0, args[2]))],
                        t2, args[2], NoErr)
            ELSE Return([d EXCEPT !.store[key] = ended], t2, 0, NoErr)

\* "get" (main.go:368-384)
execGet(d, t, args) ==
    IF ~ assertValidTransaction(d, t) THEN Panic(d, t)
    ELSE LET key == args[1]
             i == getIdx(d, t, key)
             t2 == [t EXCEPT !.readset = @ \cup {key}]
         IN IF i = 0
            THEN Return(d, t2, 0, ErrGet)
            ELSE Return(d, t2, d.store[key][i].value, NoErr)

execCommand(d, t, command, args) ==
    IF command = "begin" THEN execBegin(d, t)
    ELSE IF command = "abort" THEN execComplete(d, t, AbortedTransaction)
    ELSE IF command = "commit" THEN execComplete(d, t, CommittedTransaction)
    ELSE IF command = "set" \/ command = "delete" THEN execWrite(d, t, command, args)
    ELSE IF command = "get" THEN execGet(d, t, args)
    ELSE Return(d, t, 0, ErrCommand)

\* ---- Init and the actions -----------------------------------------------
\* newDatabase, the default isolation level the caller then assigns
\* (main_test.go:15-16, 36-37) and a newConnection (main.go:395-400) per
\* connection
InitAt(levels) ==
    /\ db \in {[newDatabase EXCEPT !.defaultIsolation = iso] : iso \in levels}
    /\ tx = [c \in Conns |-> NilTx]
    /\ shadow = [db |-> db, tx |-> tx, ghost |-> 0]
    /\ begun = [c \in Conns |-> 0]

\* connection c executes a command that does not panic
Exec(c, command, args) ==
    LET r == execCommand(db, tx[c], command, args)
    IN /\ begun[c] = 0
       /\ ~ r.panic
       /\ db' = r.db
       /\ tx' = [tx EXCEPT ![c] = r.tx]
       /\ UNCHANGED begun

\* the same command on the shadow database, but for the writes of the ghost
ShadowExec(c, command, args) ==
    LET r == execCommand(shadow.db, shadow.tx[c], command, args)
    IN IF tx[c].id = shadow.ghost /\ command \in {"set", "delete"}
       THEN UNCHANGED shadow
       ELSE shadow' = [shadow EXCEPT !.db = r.db, !.tx[c] = r.tx]

Begin(c) == Exec(c, "begin", << >>)

Abort(c) == Exec(c, "abort", << >>)

Commit(c) == Exec(c, "commit", << >>)

Set(c, key, value) ==
    /\ Len(db.store[key]) < MaxVersions
    /\ Exec(c, "set", <<key, value>>)

Delete(c, key) == Exec(c, "delete", <<key>>)

Get(c, key) == Exec(c, "get", <<key>>)

\* the assignment to Database.defaultIsolation its callers make
\* (main_test.go:16, main_test.go:37)
SetDefaultIsolation(iso) ==
    /\ iso # db.defaultIsolation
    /\ db' = [db EXCEPT !.defaultIsolation = iso]
    /\ UNCHANGED <<tx, begun>>

\* "begin" run next to the commands of other connections, nothing excluding
\* them (Database has no lock, main.go:72-77), first part: the assertEq of
\* main.go:311 and newTransaction up to the read of nextTransactionId
\* (main.go:196-201)
BeginRead(c) ==
    /\ tx[c] = NilTx
    /\ begun[c] = 0
    /\ begun' = [begun EXCEPT ![c] = db.nextTransactionId]
    /\ UNCHANGED <<db, tx, shadow>>

\* second part: the increment and the rest of newTransaction
\* (main.go:202-212), then main.go:312-314
BeginFinish(c) ==
    LET d1 == [db EXCEPT !.nextTransactionId = @ + 1]
        t == [isolation |-> db.defaultIsolation, id |-> begun[c],
              state |-> InProgressTransaction, inprogress |-> inprogress(d1),
              writeset |-> {}, readset |-> {}]
    IN /\ begun[c] # 0
       /\ db' = [d1 EXCEPT !.transactions = MapSet(@, t.id, t)]
       /\ tx' = [tx EXCEPT ![c] = t]
       /\ begun' = [begun EXCEPT ![c] = 0]
       /\ UNCHANGED shadow

\* ---- specifications -----------------------------------------------------
\* Spec: every isolation level; three transactions on one key
Init == InitAt(Isolations)

Next ==
    \/ \E c \in Conns : db.nextTransactionId <= MaxTx /\ Begin(c) /\ UNCHANGED shadow
    \/ \E c \in Conns : Abort(c) /\ UNCHANGED shadow
    \/ \E c \in Conns : Commit(c) /\ UNCHANGED shadow
    \/ \E c \in Conns, key \in OneKey, value \in OneVal : Set(c, key, value) /\ UNCHANGED shadow
    \/ \E c \in Conns, key \in OneKey : Delete(c, key) /\ UNCHANGED shadow
    \/ \E c \in Conns, key \in OneKey : Get(c, key) /\ UNCHANGED shadow

Spec == Init /\ [][Next]_vars

\* SpecDeep: Repeatable Read; four transactions on one key
InitDeep == InitAt({RepeatableReadIsolation})

NextDeep ==
    \/ \E c \in Conns : db.nextTransactionId <= MaxTxDeep /\ Begin(c) /\ UNCHANGED shadow
    \/ \E c \in Conns : Abort(c) /\ UNCHANGED shadow
    \/ \E c \in Conns : Commit(c) /\ UNCHANGED shadow
    \/ \E c \in Conns, key \in OneKey, value \in OneVal : Set(c, key, value) /\ UNCHANGED shadow
    \/ \E c \in Conns, key \in OneKey : Delete(c, key) /\ UNCHANGED shadow
    \/ \E c \in Conns, key \in OneKey : Get(c, key) /\ UNCHANGED shadow

SpecDeep == InitDeep /\ [][NextDeep]_vars

\* SpecWide: the levels that check for conflicts at commit; two transactions
\* on several keys
InitWide == InitAt({SnapshotIsolation, SerializableIsolation})

NextWide ==
    \/ \E c \in Conns : db.nextTransactionId <= MaxTxWide /\ Begin(c) /\ UNCHANGED shadow
    \/ \E c \in Conns : Abort(c) /\ UNCHANGED shadow
    \/ \E c \in Conns : Commit(c) /\ UNCHANGED shadow
    \/ \E c \in Conns, key \in Keys, value \in OneVal : Set(c, key, value) /\ UNCHANGED shadow
    \/ \E c \in Conns, key \in Keys : Delete(c, key) /\ UNCHANGED shadow
    \/ \E c \in Conns, key \in Keys : Get(c, key) /\ UNCHANGED shadow

SpecWide == InitWide /\ [][NextWide]_vars

\* SpecVals: the default level of newDatabase (Read Committed); three
\* transactions on one key, several payloads
InitVals == InitAt({ReadCommittedIsolation})

NextVals ==
    \/ \E c \in Conns : db.nextTransactionId <= MaxTx /\ Begin(c) /\ UNCHANGED shadow
    \/ \E c \in Conns : Abort(c) /\ UNCHANGED shadow
    \/ \E c \in Conns : Commit(c) /\ UNCHANGED shadow
    \/ \E c \in Conns, key \in OneKey, value \in Vals : Set(c, key, value) /\ UNCHANGED shadow
    \/ \E c \in Conns, key \in OneKey : Delete(c, key) /\ UNCHANGED shadow
    \/ \E c \in Conns, key \in OneKey : Get(c, key) /\ UNCHANGED shadow

SpecVals == InitVals /\ [][NextVals]_vars

\* SpecShadow: Read Uncommitted and Read Committed, the level changed between
\* transactions; four transactions of one connection on one key, each command
\* run on the database and on its shadow.  The ghost is the transaction of id
\* GhostId; it ends by an abort.

ShadowLevels == {ReadUncommittedIsolation, ReadCommittedIsolation}

InitShadow == InitAt(ShadowLevels)

NextShadow ==
    \/ \E iso \in ShadowLevels :
          /\ \A c \in OneConn : tx[c] = NilTx
          /\ SetDefaultIsolation(iso)
          /\ shadow' = [shadow EXCEPT !.db.defaultIsolation = iso]
    \/ \E c \in OneConn :
          /\ db.nextTransactionId <= MaxTxShadow
          /\ db.nextTransactionId # GhostId
          /\ Begin(c)
          /\ ShadowExec(c, "begin", << >>)
    \/ \E c \in OneConn :
          /\ db.nextTransactionId <= MaxTxShadow
          /\ db.nextTransactionId = GhostId
          /\ Begin(c)
          /\ shadow' = [shadow EXCEPT
                           !.db = execCommand(shadow.db, shadow.tx[c], "begin", << >>).db,
                           !.tx[c] = execCommand(shadow.db, shadow.tx[c], "begin", << >>).tx,
                           !.ghost = db.nextTransactionId]
    \/ \E c \in OneConn : Abort(c) /\ ShadowExec(c, "abort", << >>)
    \/ \E c \in OneConn :
          /\ tx[c].id # shadow.ghost
          /\ Commit(c)
          /\ ShadowExec(c, "commit", << >>)
    \/ \E c \in OneConn, key \in OneKey, value \in OneVal :
          Set(c, key, value) /\ ShadowExec(c, "set", <<key, value>>)
    \/ \E c \in OneConn, key \in OneKey :
          Delete(c, key) /\ ShadowExec(c, "delete", <<key>>)
    \/ \E c \in OneConn, key \in OneKey :
          Get(c, key) /\ ShadowExec(c, "get", <<key>>)

SpecShadow == InitShadow /\ [][NextShadow]_vars

\* SpecRace: Read Committed; the connections run their commands side by
\* side, a begin in two parts; three ids on one key
InitRace == InitAt({ReadCommittedIsolation})

NextRace ==
    \/ \E c \in Conns : db.nextTransactionId <= MaxTxRace /\ BeginRead(c)
    \/ \E c \in Conns : BeginFinish(c)
    \/ \E c \in Conns : Abort(c) /\ UNCHANGED shadow
    \/ \E c \in Conns : Commit(c) /\ UNCHANGED shadow
    \/ \E c \in Conns, key \in OneKey, value \in OneVal : Set(c, key, value) /\ UNCHANGED shadow
    \/ \E c \in Conns, key \in OneKey : Delete(c, key) /\ UNCHANGED shadow
    \/ \E c \in Conns, key \in OneKey : Get(c, key) /\ UNCHANGED shadow

SpecRace == InitRace /\ [][NextRace]_vars

\* SpecSer: Serializable; two transactions of begin, set, get, commit and
\* abort on several keys with several payloads
InitSer == InitAt({SerializableIsolation})

NextSer ==
    \/ \E c \in Conns : db.nextTransactionId <= MaxTxSer /\ Begin(c) /\ UNCHANGED shadow
    \/ \E c \in Conns : Abort(c) /\ UNCHANGED shadow
    \/ \E c \in Conns : Commit(c) /\ UNCHANGED shadow
    \/ \E c \in Conns, key \in Keys, value \in Vals : Set(c, key, value) /\ UNCHANGED shadow
    \/ \E c \in Conns, key \in Keys : Get(c, key) /\ UNCHANGED shadow

SpecSer == InitSer /\ [][NextSer]_vars

\* ---- what the claims speak of --------------------------------------------
\* what a get(key) by transaction t returns: the payload and the error
getResult(d, t, key) ==
    <<execGet(d, t, <<key>>).res, execGet(d, t, <<key>>).err>>

\* what a commit of transaction t returns, and the state it leaves t in
commitResult(d, t) ==
    LET r == execCommand(d, t, "commit", << >>)
    IN <<r.err, r.db.transactions[t.id].state>>

\* the version a get(key) by t returns (when one is visible)
gotVersion(d, t, key) == d.store[key][getIdx(d, t, key)]

\* the transactions of the table that committed
Committed(d) == {id \in DOMAIN d.transactions :
                    d.transactions[id].state = CommittedTransaction}

\* transaction u had not completed when t began, or began after t
ConcurrentWith(t, u) == u \in t.inprogress \/ u > t.id

\* the open transactions
Open == {c \in Conns : tx[c] # NilTx}

\* ---- C1 -----------------------------------------------------------------
\* C1: at Repeatable Read and stricter, what get(k) returns to an open
\* transaction T is changed by no step other than T's own set(k) or
\* delete(k); so two reads of k by T with no write of k by T in between
\* return the same, whatever the other sessions do in between.
C1_RepeatableReads ==
    [][\A c \in Conns, k \in Keys :
          (/\ tx[c] # NilTx
           /\ tx[c].isolation >= RepeatableReadIsolation
           /\ tx'[c] # NilTx
           /\ ~ (\E v \in Vals : Exec(c, "set", <<k, v>>))
           /\ ~ Exec(c, "delete", <<k>>))
          => getResult(db', tx'[c], k) = getResult(db, tx[c], k)]_vars

\* ---- C2 -----------------------------------------------------------------
\* C2: at Repeatable Read and stricter, the version a get by an open
\* transaction S returns was never created by another transaction that began
\* after S or that was in progress when S began, whether or not that
\* transaction has committed since.
C2_SnapshotExcludesConcurrentWriters ==
    \A c \in Open, k \in Keys :
        (/\ tx[c].isolation >= RepeatableReadIsolation
         /\ getIdx(db, tx[c], k) > 0)
        => LET w == gotVersion(db, tx[c], k).txStartId
           IN w = tx[c].id \/ ~ ConcurrentWith(tx[c], w)

\* C2 witness: S has read k while a version of k exists whose creator was
\* concurrent with S and has committed.
C2_Witness ==
    \E c \in Open, k \in Keys :
        /\ tx[c].isolation >= RepeatableReadIsolation
        /\ k \in tx[c].readset
        /\ \E i \in 1..Len(db.store[k]) :
              /\ ConcurrentWith(tx[c], db.store[k][i].txStartId)
              /\ db.store[k][i].txStartId \in Committed(db)
              /\ db.store[k][i].txEndId = 0

\* ---- C3 -----------------------------------------------------------------
\* C3: if a transaction T at Read Committed or stricter deleted key k (it
\* wrote k and created no version of k) and committed, and every committed
\* transaction that set k completed before T began, then a transaction R at
\* Read Committed or stricter that began after T's commit and has not
\* written k gets KeyNotFound for k.
C3_CommittedDeleteIsDurable ==
    \A c \in Open, k \in Keys :
        (/\ tx[c].isolation >= ReadCommittedIsolation
         /\ k \notin tx[c].writeset
         /\ \E T \in Committed(db) :
               /\ db.transactions[T].isolation >= ReadCommittedIsolation
               /\ T < tx[c].id
               /\ T \notin tx[c].inprogress
               /\ k \in db.transactions[T].writeset
               /\ \A i \in 1..Len(db.store[k]) : db.store[k][i].txStartId # T
               /\ \A X \in Committed(db) :
                     (\E i \in 1..Len(db.store[k]) : db.store[k][i].txStartId = X)
                     => X < T /\ X \notin db.transactions[T].inprogress)
        => getResult(db, tx[c], k) = <<0, ErrGet>>

\* ---- C4 -----------------------------------------------------------------
\* C4: of two concurrent Snapshot Isolation transactions that wrote a common
\* key, with no other transaction committed during their lives, the one that
\* commits first succeeds; and once one has committed, the commit of the
\* other returns the write-write conflict and leaves it Aborted.
C4_FirstCommitterWins ==
    \A c \in Open :
        tx[c].isolation = SnapshotIsolation =>
        /\ (/\ \E c2 \in Open \ {c} :
                  /\ tx[c2].isolation = SnapshotIsolation
                  /\ tx[c2].writeset \cap tx[c].writeset # {}
                  /\ \A w \in Committed(db) : ~ ConcurrentWith(tx[c2], w)
            /\ \A w \in Committed(db) : ~ ConcurrentWith(tx[c], w))
           => commitResult(db, tx[c]) = <<NoErr, CommittedTransaction>>
        /\ \A a \in Committed(db) :
              (/\ db.transactions[a].isolation = SnapshotIsolation
               /\ ConcurrentWith(tx[c], a)
               /\ db.transactions[a].writeset \cap tx[c].writeset # {})
              => commitResult(db, tx[c]) = <<ErrWriteWrite, AbortedTransaction>>

\* C4 witness: two concurrent Snapshot Isolation transactions wrote a common
\* key and both completed, one Committed and the other Aborted.
C4_Witness ==
    \E a \in Committed(db), b \in DOMAIN db.transactions :
        /\ db.transactions[b].state = AbortedTransaction
        /\ db.transactions[a].isolation = SnapshotIsolation
        /\ db.transactions[b].isolation = SnapshotIsolation
        /\ ConcurrentWith(db.transactions[b], a)
        /\ db.transactions[a].writeset \cap db.transactions[b].writeset # {}

\* ---- C5 -----------------------------------------------------------------
\* C5: the commit of a Snapshot Isolation transaction fails only if some
\* transaction that committed during its life wrote a key it wrote too.
C5_NoSpuriousWriteConflict ==
    \A c \in Open :
        (/\ tx[c].isolation = SnapshotIsolation
         /\ commitResult(db, tx[c])[1] # NoErr)
        => \E u \in Committed(db) :
              /\ ConcurrentWith(tx[c], u)
              /\ db.transactions[u].writeset \cap tx[c].writeset # {}

\* ---- C6 -----------------------------------------------------------------
\* a key one of the two transactions read and the other wrote
ReadWriteKey(t1, t2) ==
    \/ t1.readset \cap t2.writeset # {}
    \/ t1.writeset \cap t2.readset # {}

\* C6: of two concurrent Serializable transactions, one of which read a key
\* the other wrote, with no other transaction committed during their lives,
\* the one that commits first succeeds; and once one has committed, the
\* commit of the other returns the read-write conflict and leaves it Aborted.
C6_SecondCommitterFails ==
    \A c \in Open :
        tx[c].isolation = SerializableIsolation =>
        /\ (/\ \E c2 \in Open \ {c} :
                  /\ tx[c2].isolation = SerializableIsolation
                  /\ ReadWriteKey(tx[c], tx[c2])
                  /\ \A w \in Committed(db) : ~ ConcurrentWith(tx[c2], w)
            /\ \A w \in Committed(db) : ~ ConcurrentWith(tx[c], w))
           => commitResult(db, tx[c]) = <<NoErr, CommittedTransaction>>
        /\ \A a \in Committed(db) :
              (/\ db.transactions[a].isolation = SerializableIsolation
               /\ ConcurrentWith(tx[c], a)
               /\ ReadWriteKey(tx[c], db.transactions[a]))
              => commitResult(db, tx[c]) = <<ErrReadWrite, AbortedTransaction>>

\* C6 witness: two concurrent Serializable transactions, one of which read
\* (finding nothing) a key the other wrote, both completed, one Committed and
\* the other Aborted.
C6_Witness ==
    \E a \in Committed(db), b \in DOMAIN db.transactions, k \in Keys :
        /\ db.transactions[b].state = AbortedTransaction
        /\ db.transactions[a].isolation = SerializableIsolation
        /\ db.transactions[b].isolation = SerializableIsolation
        /\ ConcurrentWith(db.transactions[b], a)
        /\ k \in db.transactions[a].writeset \cap db.transactions[b].readset
        /\ k \notin db.transactions[a].readset \cup db.transactions[b].writeset

\* ---- C7 -----------------------------------------------------------------
\* C7: the version a get by an open Read Committed transaction S returns was
\* created by S itself or by a transaction that is Committed.
C7_NoDirtyRead ==
    \A c \in Open, k \in Keys :
        (/\ tx[c].isolation = ReadCommittedIsolation
         /\ getIdx(db, tx[c], k) > 0)
        => LET w == gotVersion(db, tx[c], k).txStartId
           IN w = tx[c].id \/ w \in Committed(db)

\* C7 witness: a Read Committed transaction has read k while k holds a live
\* version of another transaction that has not committed.
C7_Witness ==
    \E c \in Open, k \in Keys :
        /\ tx[c].isolation = ReadCommittedIsolation
        /\ k \in tx[c].readset
        /\ \E i \in 1..Len(db.store[k]) :
              /\ db.store[k][i].txStartId # tx[c].id
              /\ db.store[k][i].txStartId \notin Committed(db)
              /\ db.store[k][i].txEndId = 0

\* ---- C8 -----------------------------------------------------------------
\* the newest version of key that transaction id created, 0: none
ownIdx(d, id, key) ==
    LET I == {i \in 1..Len(d.store[key]) : d.store[key][i].txStartId = id}
    IN IF I = {} THEN 0 ELSE CHOOSE i \in I : \A j \in I : j <= i

\* C8: when a transaction T whose last write of k is a set(k, v) (its newest
\* version of k is not ended) commits, then right after the commit get(k)
\* returns v to every other open Read Committed transaction that has not
\* written k.
C8_ReadCommittedSeesLatestCommit ==
    [][\A c \in Conns, k \in Keys :
          (/\ Commit(c)
           /\ db'.transactions[tx[c].id].state = CommittedTransaction
           /\ ownIdx(db, tx[c].id, k) > 0
           /\ db.store[k][ownIdx(db, tx[c].id, k)].txEndId = 0)
          => \A c2 \in Open \ {c} :
                (/\ tx[c2].isolation = ReadCommittedIsolation
                 /\ k \notin tx[c2].writeset)
                => getResult(db', tx'[c2], k) =
                      <<db.store[k][ownIdx(db, tx[c].id, k)].value, NoErr>>]_vars

\* ---- C9 -----------------------------------------------------------------
\* C9 as claimed: at every isolation level, the version a get returns was
\* not created by a transaction that is Aborted.
C9_AbortedNeverVisible ==
    \A c \in Open, k \in Keys :
        getIdx(db, tx[c], k) > 0
        => db.transactions[gotVersion(db, tx[c], k).txStartId].state
              # AbortedTransaction

\* C9 amended: at Read Committed and stricter, the version a get returns was
\* not created by a transaction that is Aborted.
C9_AbortedNeverVisibleAboveReadUncommitted ==
    \A c \in Open, k \in Keys :
        (/\ tx[c].isolation >= ReadCommittedIsolation
         /\ getIdx(db, tx[c], k) > 0)
        => db.transactions[gotVersion(db, tx[c], k).txStartId].state
              # AbortedTransaction

\* C9 witness: a transaction at Read Committed or stricter has read k while
\* k holds a live version of a transaction that aborted.
C9_Witness ==
    \E c \in Open, k \in Keys :
        /\ tx[c].isolation >= ReadCommittedIsolation
        /\ k \in tx[c].readset
        /\ \E i \in 1..Len(db.store[k]) :
              /\ db.transactions[db.store[k][i].txStartId].state
                    = AbortedTransaction
              /\ db.store[k][i].txEndId = 0

\* ---- C10 ----------------------------------------------------------------
\* the write set of transaction id as it stands: that of the open
\* transaction, or the one recorded when it completed
writesetNow(id) ==
    IF \E c \in Open : tx[c].id = id
    THEN (CHOOSE t \in {tx[c] : c \in Open} : t.id = id).writeset
    ELSE db.transactions[id].writeset

\* the same in the shadow run
shadowWritesetNow(id) ==
    IF \E c \in Open : tx[c].id = id
    THEN (CHOOSE t \in {shadow.tx[c] : c \in Open} : t.id = id).writeset
    ELSE shadow.db.transactions[id].writeset

\* transactions T and x were in progress at the same time
Overlap(T, x) ==
    \/ x \in db.transactions[T].inprogress
    \/ T \in db.transactions[x].inprogress

\* C10: once a transaction T that wrote k has aborted, and no transaction
\* whose life overlapped T's has written k, a get(k) by another transaction
\* at Read Committed or stricter returns what it returns in the run of the
\* same commands without T's writes.
C10_AbortRollsBack ==
    \A c \in Open, k \in Keys :
        LET T == shadow.ghost IN
        (/\ T > 0
         /\ db.transactions[T].state = AbortedTransaction
         /\ k \in db.transactions[T].writeset
         /\ \A x \in DOMAIN db.transactions \ {T} :
               Overlap(T, x) => k \notin writesetNow(x) \cup shadowWritesetNow(x)
         /\ tx[c].isolation >= ReadCommittedIsolation)
        => getResult(db, tx[c], k) = getResult(shadow.db, shadow.tx[c], k)

\* ---- C11 ----------------------------------------------------------------
\* C11: at every isolation level, right after T's set(k, v) a get(k) by T
\* returns v, from the version the set appended; right after a delete(k) by
\* T that returned no error a get(k) by T fails with the error of a key that
\* does not exist.
C11_ReadYourOwnWrites ==
    [][\A c \in Conns, k \in Keys :
          /\ \A v \in Vals :
                Set(c, k, v)
                => /\ getResult(db', tx'[c], k) = <<v, NoErr>>
                   /\ getIdx(db', tx'[c], k) = Len(db'.store[k])
                   /\ gotVersion(db', tx'[c], k).txStartId = tx[c].id
          /\ (/\ Delete(c, k)
              /\ execWrite(db, tx[c], "delete", <<k>>).err = NoErr)
             => getResult(db', tx'[c], k) = <<0, ErrGet>>]_vars

\* C11 witness: an open transaction has set k over a version it saw, or has
\* deleted k, and then read k.
C11_Witness ==
    \E c \in Open, k \in Keys :
        /\ k \in tx[c].writeset
        /\ k \in tx[c].readset
        /\ \E i \in 1..Len(db.store[k]) :
              /\ db.store[k][i].txEndId = tx[c].id
              /\ db.store[k][i].txStartId # tx[c].id

\* ---- C12 ----------------------------------------------------------------
\* C12: when every transaction runs at Read Uncommitted, right after T's
\* set(k, v), T not committed, a get(k) by every other open transaction
\* returns v.
C12_ReadUncommittedDirtyRead ==
    [][\A c \in Conns, k \in Keys, v \in Vals :
          (/\ Set(c, k, v)
           /\ \A id \in DOMAIN db.transactions :
                 db.transactions[id].isolation = ReadUncommittedIsolation)
          => \A c2 \in Open \ {c} :
                getResult(db', tx'[c2], k) = <<v, NoErr>>]_vars

\* C12 witness: a Read Uncommitted transaction has read k while the newest
\* version of k is the live one of another Read Uncommitted transaction that
\* is in progress.
C12_Witness ==
    \E c \in Open, c2 \in Open, k \in Keys :
        /\ c # c2
        /\ tx[c].isolation = ReadUncommittedIsolation
        /\ tx[c2].isolation = ReadUncommittedIsolation
        /\ k \in tx[c2].readset
        /\ Len(db.store[k]) > 0
        /\ db.store[k][Len(db.store[k])].txStartId = tx[c].id
        /\ db.store[k][Len(db.store[k])].txEndId = 0

\* ---- C13 ----------------------------------------------------------------
\* C13: a commit that returns a conflict leaves its transaction Aborted in
\* the transaction table and its connection without a transaction, so that
\* a begin on that connection then succeeds.
C13_FailedCommitAborts ==
    [][\A c \in Conns :
          (/\ Commit(c)
           /\ execCommand(db, tx[c], "commit", << >>).err # NoErr)
          => /\ db'.transactions[tx[c].id].state = AbortedTransaction
             /\ tx'[c] = NilTx
             /\ ~ execCommand(db', tx'[c], "begin", << >>).panic
             /\ execCommand(db', tx'[c], "begin", << >>).err = NoErr
             /\ execCommand(db', tx'[c], "begin", << >>).tx.id
                   = db'.nextTransactionId]_vars

\* C13 witness: a transaction is recorded Aborted, a transaction that
\* committed during its life conflicts with it, and no connection holds it.
C13_Witness ==
    \E b \in DOMAIN db.transactions :
        /\ db.transactions[b].state = AbortedTransaction
        /\ db.transactions[b].isolation >= SnapshotIsolation
        /\ hasConflict(db, db.transactions[b], db.transactions[b].isolation)
        /\ \A c \in Conns : tx[c].id # b

\* ---- C14 ----------------------------------------------------------------
\* C14: the ids of the transaction table are 1, 2, 3, ... in the order of
\* the begins, none used twice: a begin takes the id after the last one
\* allocated; no record leaves the table; the state of a record changes only
\* from InProgress, to Committed or Aborted, and a Committed or Aborted
\* record keeps its state.
C14_TableMonotonic ==
    [][/\ DOMAIN db.transactions = 1..(db.nextTransactionId - 1)
       /\ DOMAIN db'.transactions = 1..(db'.nextTransactionId - 1)
       /\ db'.nextTransactionId >= db.nextTransactionId
       /\ \A c \in Conns :
             Begin(c) => /\ tx'[c].id = db.nextTransactionId
                         /\ db'.nextTransactionId = db.nextTransactionId + 1
                         /\ tx'[c].id \notin DOMAIN db.transactions
                         /\ \A c2 \in Conns \ {c} : tx'[c2].id # tx'[c].id
       /\ \A id \in DOMAIN db.transactions :
             /\ db'.transactions[id].id = id
             /\ db'.transactions[id].state # db.transactions[id].state
                => /\ db.transactions[id].state = InProgressTransaction
                   /\ db'.transactions[id].state
                         \in {CommittedTransaction, AbortedTransaction}]_vars

\* C14 witness: three transactions have begun; one is Committed, one is
\* Aborted and the last one is in progress.
C14_Witness ==
    /\ db.nextTransactionId = 4
    /\ \E a, b \in DOMAIN db.transactions :
          /\ db.transactions[a].state = CommittedTransaction
          /\ db.transactions[b].state = AbortedTransaction
    /\ db.transactions[3].state = InProgressTransaction

\* ---- C15 ----------------------------------------------------------------
\* C15: a delete(k) by T when T sees no version of k returns the error of a
\* key that does not exist and changes nothing: the store (no txEndId, no
\* version more), the transaction table (T stays InProgress) and T's write
\* set and read set are as before.
C15_FailedDeleteChangesNothing ==
    \A c \in Open, k \in Keys :
        visibleIdx(db, tx[c], k) = {}
        => LET r == execCommand(db, tx[c], "delete", <<k>>)
           IN /\ ~ r.panic
              /\ r.err = ErrDelete
              /\ r.db = db
              /\ r.tx = tx[c]
              /\ r.db.transactions[tx[c].id].state = InProgressTransaction

\* C15 witness: versions of k are stored, an open transaction that has not
\* written k sees none of them, so that its delete(k) fails; the state after
\* the failed delete is this same state.
C15_Witness ==
    \E c \in Open, k \in Keys :
        /\ Len(db.store[k]) > 0
        /\ visibleIdx(db, tx[c], k) = {}
        /\ k \notin tx[c].writeset
        /\ execCommand(db, tx[c], "delete", <<k>>).err = ErrDelete

\* ---- C16 ----------------------------------------------------------------
\* the command returns an error value and leaves the database as it was
Rejected(d, t, command, args) ==
    LET r == execCommand(d, t, command, args)
    IN /\ ~ r.panic
       /\ r.err # NoErr
       /\ r.db = d

\* C16: a begin on a connection that has an open transaction, and a get,
\* set, delete, commit or abort on a connection that has none, return an
\* error value (the program does not panic) and leave the database
\* unchanged.
C16_SessionOrderingErrors ==
    \A c \in Conns :
        /\ tx[c] # NilTx => Rejected(db, tx[c], "begin", << >>)
        /\ tx[c] = NilTx =>
              /\ \A k \in Keys : Rejected(db, tx[c], "get", <<k>>)
              /\ \A k \in Keys, v \in Vals : Rejected(db, tx[c], "set", <<k, v>>)
              /\ \A k \in Keys : Rejected(db, tx[c], "delete", <<k>>)
              /\ Rejected(db, tx[c], "commit", << >>)
              /\ Rejected(db, tx[c], "abort", << >>)

\* ---- C17 ----------------------------------------------------------------
\* C17: a version whose txStartId and txEndId are the same transaction is
\* visible to no open transaction, at any isolation level and whatever the
\* state of its creator; so no get returns it, in any reachable state.
C17_SelfEndedVersionInvisible ==
    \A c \in Open, k \in Keys :
        /\ \A i \in 1..Len(db.store[k]) :
              db.store[k][i].txStartId = db.store[k][i].txEndId
              => ~ isvisible(db, tx[c], db.store[k][i])
        /\ getIdx(db, tx[c], k) > 0
           => gotVersion(db, tx[c], k).txStartId # gotVersion(db, tx[c], k).txEndId

\* C17 witness: a committed transaction created and ended a version of k,
\* and another transaction, which began after that commit, has read k.
C17_Witness ==
    \E c \in Open, k \in Keys :
        /\ k \in tx[c].readset
        /\ \E i \in 1..Len(db.store[k]) :
              /\ db.store[k][i].txStartId = db.store[k][i].txEndId
              /\ db.store[k][i].txStartId \in Committed(db)
              /\ db.store[k][i].txStartId < tx[c].id
              /\ db.store[k][i].txStartId \notin tx[c].inprogress

\* ---- C18 ----------------------------------------------------------------
\* C18: with the connections running their commands side by side, every
\* begin allocates its id in one atomic step: two connections never hold
\* open transactions of the same id, and every allocated id has its own
\* record in the transaction table.
C18_BeginIsAtomic ==
    /\ \A c1 \in Open, c2 \in Open : c1 # c2 => tx[c1].id # tx[c2].id
    /\ DOMAIN db.transactions = 1..(db.nextTransactionId - 1)

\* ---- C19 ----------------------------------------------------------------
\* the orders in which the transactions of S can run one at a time
SerialOrders(S) ==
    {o \in [1..Cardinality(S) -> S] :
        \A i, j \in 1..Cardinality(S) : o[i] = o[j] => i = j}

\* the payload the last set(key) of transaction id wrote: that of its
\* version of key that it did not end itself
lastSet(d, id, key) ==
    LET I == {i \in 1..Len(d.store[key]) :
                 /\ d.store[key][i].txStartId = id
                 /\ d.store[key][i].txEndId # id}
    IN d.store[key][CHOOSE i \in I : TRUE].value

\* what get(key) returns after the transactions of order o, whose commands
\* are begin, set and commit, ran one at a time from the empty store: the
\* payload of the last one that set key
serialGet(d, o, key) ==
    LET W == {i \in DOMAIN o : key \in d.transactions[o[i]].writeset}
    IN IF W = {} THEN <<0, ErrGet>>
       ELSE <<lastSet(d, o[CHOOSE i \in W : \A j \in W : j <= i], key), NoErr>>

\* what get(key) returns to a transaction begun now
freshGet(d, key) == getResult(newTransaction(d).db, newTransaction(d).t, key)

\* C19: when all transactions ran at Serializable and those that committed
\* only wrote (begin, sets, commit), what a transaction begun afterwards
\* reads of every key is what it reads after some one-at-a-time execution
\* of exactly the committed transactions.
C19_SerializableBlindWrites ==
    (/\ Open = {}
     /\ \A id \in DOMAIN db.transactions :
           db.transactions[id].isolation = SerializableIsolation
     /\ \A id \in Committed(db) : db.transactions[id].readset = {})
    => \E o \in SerialOrders(Committed(db)) :
          \A k \in Keys : freshGet(db, k) = serialGet(db, o, k)

\* ---- C20 ----------------------------------------------------------------
\* transaction t had it begun at level iso; Snapshot Isolation and
\* Serializable take the same branches of isvisible and of execCommand, so
\* the commands of a Serializable run leave the store, the sets and the
\* table that the same commands leave at Snapshot Isolation, the isolation
\* fields apart, up to the first commit that fails
atLevel(t, iso) == [t EXCEPT !.isolation = iso]

\* C20: when a Serializable transaction T and a transaction that committed
\* during T's life wrote a common key, so that T's commit returns the
\* write-write conflict had the two run at Snapshot Isolation, T's commit at
\* Serializable fails too and leaves T Aborted.
C20_SerializableAtLeastSnapshot ==
    \A c \in Open :
        (/\ tx[c].isolation = SerializableIsolation
         /\ \E a \in Committed(db) :
               /\ ConcurrentWith(tx[c], a)
               /\ db.transactions[a].writeset \cap tx[c].writeset # {}
         /\ commitError(db, atLevel(tx[c], SnapshotIsolation)) = ErrWriteWrite)
        => /\ commitResult(db, tx[c])[1] # NoErr
           /\ commitResult(db, tx[c])[2] = AbortedTransaction

\* ---- C21 ----------------------------------------------------------------
\* C21: at Repeatable Read and stricter, as long as the last write of k by
\* an open transaction T is a set(k, v) (T's newest version of k is not
\* ended by T), get(k) by T returns v, from that version, whatever the other
\* connections have done since.
C21_OwnSetStays ==
    \A c \in Open, k \in Keys :
        (/\ tx[c].isolation >= RepeatableReadIsolation
         /\ ownIdx(db, tx[c].id, k) > 0
         /\ db.store[k][ownIdx(db, tx[c].id, k)].txEndId # tx[c].id)
        => /\ getIdx(db, tx[c], k) = ownIdx(db, tx[c].id, k)
           /\ getResult(db, tx[c], k) =
                 <<db.store[k][ownIdx(db, tx[c].id, k)].value, NoErr>>

\* C21 witness: T at Repeatable Read or stricter set k over a version it
\* saw and has read k; since then another transaction has replaced T's end
\* marker on that older version by its own.
C21_Witness ==
    \E c \in Open, k \in Keys :
        /\ tx[c].isolation >= RepeatableReadIsolation
        /\ k \in tx[c].readset
        /\ ownIdx(db, tx[c].id, k) > 1
        /\ db.store[k][ownIdx(db, tx[c].id, k)].txEndId # tx[c].id
        /\ \E i \in 1..(ownIdx(db, tx[c].id, k) - 1) :
              /\ db.store[k][i].txStartId # tx[c].id
              /\ db.store[k][i].txEndId \notin {0, tx[c].id}
              /\ isvisible(db, tx[c], db.store[k][i])

\* ---- C22 ----------------------------------------------------------------
\* the last write of key by the open transaction t is a delete that
\* succeeded: t wrote key, and t itself ended every version of key it
\* created
lastWriteIsDelete(d, t, key) ==
    /\ key \in t.writeset
    /\ \A i \in 1..Len(d.store[key]) :
          d.store[key][i].txStartId = t.id => d.store[key][i].txEndId = t.id

\* C22: at Repeatable Read and stricter, as long as the last write of k by
\* an open transaction T is a delete(k) that succeeded, get(k) by T fails
\* with the error of a key that does not exist, whatever the other
\* connections have done to k since.
C22_OwnDeleteStays ==
    \A c \in Open, k \in Keys :
        (/\ tx[c].isolation >= RepeatableReadIsolation
         /\ lastWriteIsDelete(db, tx[c], k))
        => getResult(db, tx[c], k) = <<0, ErrGet>>

\* ---- C23 ----------------------------------------------------------------
\* C23: no step changes the txEndId of a version when that txEndId names a
\* transaction that is Committed, nor replaces it by the id of another
\* transaction when it names a transaction that is in progress.
C23_EndMarkerStable ==
    [][\A k \in Keys : \A i \in 1..Len(db.store[k]) :
          LET e == db.store[k][i].txEndId
          IN (/\ e > 0
              /\ db.transactions[e].state
                    \in {CommittedTransaction, InProgressTransaction})
             => db'.store[k][i].txEndId = e]_vars

\* ---- C24 ----------------------------------------------------------------
\* the ids newTransaction has allocated
Allocated(d) == 1..(d.nextTransactionId - 1)

\* C24 as claimed: the txStartId of every stored version is an allocated
\* id, and its txEndId is 0 or an allocated id that is at least its
\* txStartId.
C24_VersionIds ==
    \A k \in Keys : \A i \in 1..Len(db.store[k]) :
        /\ db.store[k][i].txStartId \in Allocated(db)
        /\ \/ db.store[k][i].txEndId = 0
           \/ /\ db.store[k][i].txEndId \in Allocated(db)
              /\ db.store[k][i].txEndId >= db.store[k][i].txStartId

\* C24 amended: the txStartId of every stored version is an allocated id,
\* and its txEndId is 0 or an allocated id; the txEndId is at least the
\* txStartId when the transaction it names runs at Repeatable Read or
\* stricter.
C24_VersionIdsByLevel ==
    \A k \in Keys : \A i \in 1..Len(db.store[k]) :
        /\ db.store[k][i].txStartId \in Allocated(db)
        /\ \/ db.store[k][i].txEndId = 0
           \/ /\ db.store[k][i].txEndId \in Allocated(db)
              /\ db.transactions[db.store[k][i].txEndId].isolation
                    >= RepeatableReadIsolation
                 => db.store[k][i].txEndId >= db.store[k][i].txStartId

\* C24 witness: a transaction at Repeatable Read or stricter has ended a
\* version of another transaction while a transaction older than that
\* version's creator is open.
C24_Witness ==
    \E k \in Keys, c \in Open : \E i \in 1..Len(db.store[k]) :
        /\ db.store[k][i].txEndId > db.store[k][i].txStartId
        /\ db.transactions[db.store[k][i].txEndId].isolation
              >= RepeatableReadIsolation
        /\ tx[c].id < db.store[k][i].txStartId

\* ---- C25 ----------------------------------------------------------------
\* C25: the inprogress set a begin gives its transaction is the set of the
\* ids whose state is InProgress then; it holds neither the transaction's
\* own id nor an id above it; and no later step changes the inprogress set
\* of a transaction, in the table or in its connection.
C25_SnapshotFixedAtBegin ==
    [][/\ \A c \in Conns :
             Begin(c)
             => /\ tx'[c].inprogress = inprogress(db)
                /\ db'.transactions[tx'[c].id].inprogress = inprogress(db)
                /\ tx'[c].id \notin tx'[c].inprogress
                /\ \A id \in tx'[c].inprogress : id < tx'[c].id
       /\ \A c \in Conns :
             (tx[c] # NilTx /\ tx'[c] # NilTx)
             => tx'[c].inprogress = tx[c].inprogress
       /\ \A id \in DOMAIN db.transactions :
             db'.transactions[id].inprogress = db.transactions[id].inprogress]_vars

\* C25 witness: an open transaction whose inprogress set holds a
\* transaction that has completed since, another one having begun after it.
C25_Witness ==
    \E c \in Open : \E id \in tx[c].inprogress :
        /\ db.transactions[id].state # InProgressTransaction
        /\ db.transactions[tx[c].id].inprogress = tx[c].inprogress
        /\ db.nextTransactionId > tx[c].id + 1

\* ---- C26 ----------------------------------------------------------------
\* C26: a get(k) by T when T sees no version of k returns the error of a
\* key that does not exist and leaves T's state, read set and write set,
\* the version store and the transaction table as they were.
C26_FailedGetChangesNothing ==
    \A c \in Open, k \in Keys :
        getIdx(db, tx[c], k) = 0
        => LET r == execCommand(db, tx[c], "get", <<k>>)
           IN /\ ~ r.panic
              /\ r.err = ErrGet
              /\ r.db = db
              /\ r.tx.state = tx[c].state
              /\ r.tx.writeset = tx[c].writeset
              /\ r.tx.readset = tx[c].readset

\* ---- C27 ----------------------------------------------------------------
\* C27: the abort of an open transaction returns no error, at any isolation
\* level, and leaves it Aborted; the commit of an open transaction at Read
\* Uncommitted, Read Committed or Repeatable Read returns no error and
\* leaves it Committed, whatever the other transactions have done.
C27_CompletionWithoutChecks ==
    \A c \in Open :
        /\ LET r == execCommand(db, tx[c], "abort", << >>)
           IN /\ ~ r.panic
              /\ r.err = NoErr
              /\ r.tx = NilTx
              /\ r.db.transactions[tx[c].id].state = AbortedTransaction
        /\ tx[c].isolation <= RepeatableReadIsolation
           => /\ ~ execCommand(db, tx[c], "commit", << >>).panic
              /\ commitResult(db, tx[c]) = <<NoErr, CommittedTransaction>>

\* C27 witness: two transactions at Repeatable Read, each begun before the
\* other completed, wrote a common key and both are Committed.
C27_Witness ==
    \E a \in Committed(db), b \in Committed(db) :
        /\ a # b
        /\ db.transactions[a].isolation = RepeatableReadIsolation
        /\ db.transactions[b].isolation = RepeatableReadIsolation
        /\ ConcurrentWith(db.transactions[b], a)
        /\ db.transactions[a].writeset \cap db.transactions[b].writeset # {}

====
